---------------------------- MODULE Spec2Model ----------------------------
(***************************************************************************)
(* A model of the BFit / FittingBasisSets fitting code:                    *)
(*   - GreedyLeastSquares (bfit/greedy/greedy_lq.py): the analytic seed,   *)
(*     the NNLS + SLSQP refinement and the greedy growth of the basis;     *)
(*   - the grids of fitting/grid.py and their integration rules.           *)
(*                                                                         *)
(* Numbers.  The code computes with floating point reals; the model        *)
(* computes with exact rationals n/d and the float specials nan,           *)
(* inf and -inf.  A target density value is a power of two, stored by  *)
(* its binary logarithm k (the value is 2^k), so that np.log(density) is   *)
(* k * ln 2 exactly: every logarithmic quantity of the seed (c, f, big_a,  *)
(* big_b, the exponent) is carried in units of ln 2, and np.exp of such a  *)
(* quantity q is the real 2^q.  Rounding is not modelled.                  *)
(***************************************************************************)
EXTENDS Integers, Sequences, FiniteSets, TLC

VARIABLES
    grid,       \* GreedyLeastSquares.grid.points: the radii, a sequence
    density,    \* GreedyLeastSquares.density: binary logarithms, one per point
    element,    \* gauss_obj.element: "None" or the name of an element table
    pc,         \* the operation that produced `outcome`
    weightArg,  \* the argument of the last _solve_one_function_weight or get_cost_function call
    costs,      \* cost_func1..3 of the last seed stage
    outcome     \* what the last operation returned or raised

seedVars == <<grid, density, element, pc, weightArg, costs, outcome>>

VARIABLES
    phase,      \* the state of the greedy run: seed, grow, select, ...
    params,     \* the accepted parameter vector, coefficients then exponents
    history,    \* the cost of the vector accepted at each basis size
    cands,      \* the candidates of this iteration still to be refined
    bestChoice, \* <<cost, vector>> of the best refined candidate so far
    rpc,        \* the position inside get_optimization_routine
    frame,      \* the locals of the running get_optimization_routine call
    calls       \* the collaborator calls it has made, in order

greedyVars == <<phase, params, history, cands, bestChoice, rpc, frame, calls>>

VARIABLES
    gridObj,    \* the grid object the last constructor call returned, if any
    gpc,        \* the grid operation that produced `gresult`
    ctorArgs,   \* the arguments of the last constructor call
    arrArg,     \* the array passed to the last integrate call
    gresult     \* what the last grid operation returned or raised

gridVars == <<gridObj, gpc, ctorArgs, arrArg, gresult>>

VARIABLES
    measure,     \* the measure object the last constructor call returned, if any
    mpc,         \* the measure operation that produced `mresult`
    measureArgs, \* the arguments of the last measure constructor call
    modelArg,    \* the arguments of the last evaluate call
    mresult      \* what the last measure operation returned or raised

measureVars == <<measure, mpc, measureArgs, modelArg, mresult>>

VARIABLES
    dmodel,      \* the DensityModel object the last constructor call returned, if any
    dpc,         \* the DensityModel operation that produced `dresult`
    dmodelArgs,  \* the arguments of the last DensityModel call
    dresult      \* what that call returned or raised

dmodelVars == <<dmodel, dpc, dmodelArgs, dresult>>

VARIABLES
    mbis,      \* the locals of iterative_MBIS_method: old_coefficients,
               \* new_coefficients, current_error and the loop counter x
    bpc,       \* where the call of iterative_MBIS_method stands
    mbisArgs,  \* the arguments of the call
    bresult    \* what the call returned or raised

mbisVars == <<mbis, bpc, mbisArgs, bresult>>

\* what the fitter, the grids, the measures and the density model leave alone
outsideFitter == <<gridVars, measureVars, dmodelVars, mbisVars>>
outsideGrid == <<seedVars, greedyVars, measureVars, dmodelVars, mbisVars>>
outsideMeasure == <<seedVars, greedyVars, gridVars, dmodelVars, mbisVars>>
outsideDensityModel == <<seedVars, greedyVars, gridVars, measureVars, mbisVars>>
outsideMbis == <<seedVars, greedyVars, gridVars, measureVars, dmodelVars>>

vars == <<seedVars, greedyVars, gridVars, measureVars, dmodelVars, mbisVars>>

-----------------------------------------------------------------------------
(* Bounds of the model *)

MaxPts == 3          \* grids have 1..MaxPts points
MaxRadius == 3       \* radii are the integers 0..MaxRadius
MaxLogDensity == 1   \* sampled density values are 2^0 .. 2^MaxLogDensity
MaxLogCoeff == 4     \* a Gaussian target has the coefficient 2^0 .. 2^MaxLogCoeff
MaxWeight == 2       \* explicit weight vectors have entries 1..MaxWeight

-----------------------------------------------------------------------------
(* Exact arithmetic *)

\* A float is a triple <<tag, n, d>>: the rational n/d ("rat", lowest terms,
\* d > 0), the power of two 2^(n/d) ("exp2"), or one of the float specials.
NaN == <<"nan", 0, 1>>
PosInf == <<"inf", 0, 1>>
NegInf == <<"-inf", 0, 1>>

Abs(x) == IF x < 0 THEN -x ELSE x

RECURSIVE GCD(_, _)
GCD(x, y) == IF y = 0 THEN x ELSE GCD(y, x % y)

\* the rational n/d in lowest terms with a positive denominator (d # 0)
Rat(n, d) ==
    LET g == GCD(Abs(n), Abs(d))
        s == IF d < 0 THEN -1 ELSE 1
    IN  <<"rat", s * (n \div g), s * (d \div g)>>

IsRat(x) == x[1] = "rat"
IsExp2(x) == x[1] = "exp2"
IsFinite(x) == x[1] \in {"rat", "exp2"}

\* x + y over the least common denominator
RatAdd(x, y) ==
    LET g == GCD(x[3], y[3])
    IN  Rat(x[2] * (y[3] \div g) + y[2] * (x[3] \div g), x[3] * (y[3] \div g))
RatMul(x, y) == Rat(x[2] * y[2], x[3] * y[3])
RatNeg(x) == <<"rat", -x[2], x[3]>>
RatLess(x, y) == x[2] * y[3] < y[2] * x[3]
RatOfInt(n) == <<"rat", n, 1>>

\* numpy float64 division n / d of two finite numbers given as integers:
\* a zero divisor gives nan (0/0) or a signed infinity, never an exception
FloatDiv(n, d) ==
    IF d # 0 THEN Rat(n, d)
    ELSE IF n = 0 THEN NaN
    ELSE IF n > 0 THEN PosInf ELSE NegInf

\* unary minus on a rational or a float special
FloatNeg(x) ==
    IF x = NaN THEN NaN
    ELSE IF x = PosInf THEN NegInf
    ELSE IF x = NegInf THEN PosInf
    ELSE RatNeg(x)

\* np.exp(q * ln 2) for a rational q: the positive real 2^q; exp(-inf) = 0
Exp(q) ==
    IF q = NaN THEN NaN
    ELSE IF q = PosInf THEN PosInf
    ELSE IF q = NegInf THEN RatOfInt(0)
    ELSE <<"exp2", q[2], q[3]>>

RECURSIVE SumSeq(_)
SumSeq(s) == IF s = <<>> THEN 0 ELSE Head(s) + SumSeq(Tail(s))

RECURSIVE Pow(_, _)
Pow(x, n) == IF n = 0 THEN 1 ELSE x * Pow(x, n - 1)

\* the elementwise product of two integer arrays of one shape
Times(u, v) == [i \in 1..Len(u) |-> u[i] * v[i]]

\* np.power(arr, n), elementwise
Power(arr, n) == [i \in 1..Len(arr) |-> Pow(arr[i], n)]

-----------------------------------------------------------------------------
(* The target density and the cost function *)

\* the density values as numbers: 2^k for the stored logarithm k
DensityValues == [i \in 1..Len(density) |-> Pow(2, density[i])]

\* np.log(self.density), in units of ln 2
LogDensity == density

FirstHalf(v) == SubSeq(v, 1, Len(v) \div 2)
SecondHalf(v) == SubSeq(v, Len(v) \div 2 + 1, Len(v))

Zero == RatOfInt(0)
One == <<"exp2", 0, 1>>

\* The binary logarithm of the k-th term of the model at radius r, for a
\* parameter vector v = coefficients then exponents: the term is
\* c_k * exp(-e_k * r^2) with c_k = 2^q and e_k = alpha * ln 2, and its
\* logarithm is q - alpha * r^2.
TermLog(v, k, r) ==
    RatAdd(<<"rat", v[k][2], v[k][3]>>,
           RatMul(RatNeg(v[Len(v) \div 2 + k]), RatOfInt(r * r)))

RECURSIVE SumPow2(_, _, _, _)
\* the sum over the non-zero terms k..K of 2^(TermLog - low)
SumPow2(v, k, r, low) ==
    IF k > Len(v) \div 2 THEN 0
    ELSE (IF IsExp2(v[k]) THEN Pow(2, TermLog(v, k, r)[2] - low) ELSE 0)
             + SumPow2(v, k + 1, r, low)

\* create_model(v) equals the density at point i.  A sum of n powers of two
\* 2^x is the power of two 2^t only if every x is an integer in t-n+1 .. t
\* (powers of two with different fractional exponents are linearly
\* independent over the rationals), and then the sum is compared exactly.
ExactAt(v, i) ==
    LET terms == {k \in 1..(Len(v) \div 2) : IsExp2(v[k])}
        n == Cardinality(terms)
        t == density[i]
    IN  /\ n >= 1
        /\ \A k \in 1..(Len(v) \div 2) : v[k] = Zero \/ IsExp2(v[k])
        /\ \A k \in terms :
              /\ TermLog(v, k, grid[i])[3] = 1
              /\ TermLog(v, k, grid[i])[2] <= t
              /\ TermLog(v, k, grid[i])[2] >= t - n + 1
        /\ SumPow2(v, 1, grid[i], t - n + 1) = Pow(2, n - 1)

\* the model of the parameter vector v is the target density at every point
ExactFit(v) == \A i \in 1..Len(grid) : ExactAt(v, i)

\* A finite cost at or above val = 1e10 (line 85).
Huge == <<"huge", 0, 1>>

MaxCost == 1    \* a non-zero cost below val is one of the levels 1..MaxCost

\* gauss_obj.cost_function(p), the sum of squared residuals: nan for a vector
\* holding a non-finite number, 0 exactly for an exact fit, and positive
\* otherwise.  The size of a positive cost is not computed: it is any level
\* below val, or Huge.
CostFunction(p) ==
    IF \E j \in 1..Len(p) : ~IsFinite(p[j]) THEN {NaN}
    ELSE IF ExactFit(p) THEN {RatOfInt(0)}
    ELSE {RatOfInt(n) : n \in 1..MaxCost} \cup {Huge}

\* x < y on float64 costs: false as soon as either is nan
CostLess(x, y) ==
    /\ x # NaN
    /\ y # NaN
    /\ IF IsRat(x) /\ IsRat(y) THEN RatLess(x, y) ELSE IsRat(x) /\ y = Huge

\* p_min[0] < val (line 106)
BelowVal(x) == IsRat(x)

-----------------------------------------------------------------------------
(* GreedyLeastSquares: the seed stage *)

\* the determinant b * d - a * e of the 2x2 normal equations (line 62)
Determinant(weight) ==
    LET a == 2 * SumSeq(weight)
        b == 2 * SumSeq(Times(weight, Power(grid, 2)))
        d == b
        e == 2 * SumSeq(Times(weight, Power(grid, 4)))
    IN  b * d - a * e

\* _solve_one_function_weight with the weight left out of the sum f
SolveOneFunctionWeight_UnweightedF(weight) ==
    LET r2 == Power(grid, 2)
        r4 == Power(grid, 4)
        a == 2 * SumSeq(weight)
        b == 2 * SumSeq(Times(weight, r2))
        c == 2 * SumSeq(Times(weight, LogDensity))
        d == b
        e == 2 * SumSeq(Times(weight, r4))
        f == 2 * SumSeq(Times(r2, LogDensity))
        big_a == FloatDiv(b * f - c * e, b * d - a * e)
        big_b == FloatDiv(a * f - c * d, a * e - b * d)
    IN  <<Exp(big_a), FloatNeg(big_b)>>

\* _solve_one_function_weight(weight), lines 52-66
SolveOneFunctionWeight(weight) ==
    LET r2 == Power(grid, 2)
        r4 == Power(grid, 4)
        a == 2 * SumSeq(weight)
        sum_of_grid_squared == SumSeq(Times(weight, r2))
        b == 2 * sum_of_grid_squared
        sum_ln_electron_density == SumSeq(Times(weight, LogDensity))
        c == 2 * sum_ln_electron_density
        d == b
        e == 2 * SumSeq(Times(weight, r4))
        f == 2 * SumSeq(Times(Times(weight, r2), LogDensity))
        big_a == FloatDiv(b * f - c * e, b * d - a * e)
        big_b == FloatDiv(a * f - c * d, a * e - b * d)
        coefficient == Exp(big_a)
        exponent == FloatNeg(big_b)
    IN  <<coefficient, exponent>>

\* Python's min(items, key=lambda t: t[0]): the first item no later item is
\* less than, each later item compared with the best one so far
RECURSIVE PyMinFrom(_, _)
PyMinFrom(best, rest) ==
    IF rest = <<>> THEN best
    ELSE IF CostLess(Head(rest)[1], best[1]) THEN PyMinFrom(Head(rest), Tail(rest))
    ELSE PyMinFrom(best, Tail(rest))

PyMin(items) == PyMinFrom(Head(items), Tail(items))

Returned(v) == [kind |-> "return", value |-> v, error |-> "none"]
Raised(err) == [kind |-> "raise", value |-> <<>>, error |-> err]
NoOutcome == [kind |-> "none", value |-> <<>>, error |-> "none"]

\* What lines 106-108 do with p_min when no element table is set: best_found
\* is bound only inside the `if self.gauss_obj.element is not None` block.
SeedResult(p_min) ==
    IF BelowVal(p_min[1]) THEN Returned(p_min[2])
    ELSE Raised("UnboundLocalError")

\* The weight vectors of the three weightings, lines 70-78
Weight1 == [i \in 1..Len(grid) |-> 1]
Weight2 == DensityValues
Weight3 == Power(DensityValues, 2)

\* the three analytic candidates, in the order of lines 72-78
Candidates ==
    <<SolveOneFunctionWeight(Weight1), SolveOneFunctionWeight(Weight2),
      SolveOneFunctionWeight(Weight3)>>

\* get_best_one_function_solution(), lines 68-108
GetBestOneFunctionSolution ==
    /\ pc = "ready"
    /\ LET p1 == SolveOneFunctionWeight(Weight1)
           p2 == SolveOneFunctionWeight(Weight2)
           p3 == SolveOneFunctionWeight(Weight3)
       IN  \E cost_func1 \in CostFunction(p1), cost_func2 \in CostFunction(p2),
              cost_func3 \in CostFunction(p3) :
              \* cost_function is a function: equal vectors have equal costs
              /\ p1 = p2 => cost_func1 = cost_func2
              /\ p1 = p3 => cost_func1 = cost_func3
              /\ p2 = p3 => cost_func2 = cost_func3
              /\ costs' = <<cost_func1, cost_func2, cost_func3>>
              /\ LET p_min == PyMin(<< <<cost_func1, p1>>, <<cost_func2, p2>>,
                                       <<cost_func3, p3>> >>)
                 IN  IF element # "None"
                     \* lines 87-95: self.ugbs is never set and np.append is
                     \* called with a single argument
                     THEN \E err \in {"AttributeError", "TypeError"} :
                              outcome' = Raised(err)
                     ELSE outcome' = SeedResult(p_min)
    /\ pc' = "seed"
    /\ weightArg' = <<>>
    /\ UNCHANGED <<grid, density, element, greedyVars, outsideFitter>>

\* A call of _solve_one_function_weight with a positive weight vector of the
\* grid's shape
SolveWeight ==
    /\ pc = "ready"
    /\ \E weight \in [1..Len(grid) -> 1..MaxWeight] :
          /\ weightArg' = weight
          /\ outcome' = Returned(SolveOneFunctionWeight(weight))
    /\ pc' = "solve"
    /\ UNCHANGED <<grid, density, element, costs, greedyVars, outsideFitter>>

\* Python's None, where a number is expected
PyNone == <<"None", 0, 1>>

\* get_cost_function(params), lines 49-50: the value of
\* gauss_obj.cost_function(params) is dropped, the method has no return
GetCostFunctionResult(cost) == Returned(PyNone)

\* the vectors get_cost_function is called with: the three analytic
\* candidates and the vector (1, 1)
CostParams == {Candidates[i] : i \in 1..3} \cup {<<One, RatOfInt(1)>>}

\* A call of get_cost_function(params); costs keeps what
\* gauss_obj.cost_function(params) returned inside it
GetCostFunction ==
    /\ pc = "ready"
    /\ \E p \in CostParams : \E cost \in CostFunction(p) :
          /\ weightArg' = p
          /\ costs' = <<cost>>
          /\ outcome' = GetCostFunctionResult(cost)
    /\ pc' = "cost"
    /\ UNCHANGED <<grid, density, element, greedyVars, outsideFitter>>

\* the fitter is used again
Reset ==
    /\ pc # "ready"
    /\ pc' = "ready"
    /\ outcome' = NoOutcome
    /\ weightArg' = <<>>
    /\ costs' = <<>>
    /\ UNCHANGED <<grid, density, element, greedyVars, outsideFitter>>

\* the strictly increasing sequences of length n over 0..MaxRadius
RadialGrids(n) ==
    {g \in [1..n -> 0..MaxRadius] : \A i \in 1..(n - 1) : g[i] < g[i + 1]}

\* the exponents alpha * ln 2 of the Gaussian targets, alpha = n/d
Alphas == {Rat(n, d) : n \in {1, 2}, d \in {1, 2, 4}}

\* c * exp(-a * r^2) on the grid g, with c = 2^kc and a = alpha * ln 2: the
\* binary logarithm kc - alpha * r^2 at each point
Gaussian(kc, alpha, g) ==
    [i \in 1..Len(g) |-> RatAdd(RatOfInt(kc), RatMul(RatNeg(alpha), RatOfInt(g[i] * g[i])))]

\* the Gaussian targets on g whose values are powers of two 2^k with k >= 0
GaussianTargets(g) ==
    {[i \in 1..Len(g) |-> Gaussian(kc, alpha, g)[i][2]] :
        <<kc, alpha>> \in {ka \in (0..MaxLogCoeff) \X Alphas :
            \A i \in 1..Len(g) : /\ Gaussian(ka[1], ka[2], g)[i][3] = 1
                                 /\ Gaussian(ka[1], ka[2], g)[i][2] >= 0}}

NoFrame == [params |-> <<>>, exps |-> <<>>, cofac_matrix |-> <<>>,
            coeffs |-> <<>>, result |-> <<>>]

\* no greedy run is under way
GreedyIdle ==
    /\ phase = "ready"
    /\ params = <<>>
    /\ history = <<>>
    /\ cands = <<>>
    /\ bestChoice = <<>>
    /\ rpc = "idle"
    /\ frame = NoFrame
    /\ calls = <<>>

\* no grid object
NoGrid == [cls |-> "none", points |-> <<>>, spherical |-> FALSE,
           step |-> RatOfInt(0), atomic_number |-> 0, shared |-> FALSE]

NoArgs == [cls |-> "none"]

\* no grid has been built
GridIdle ==
    /\ gridObj = NoGrid
    /\ gpc = "new"
    /\ ctorArgs = NoArgs
    /\ arrArg = <<>>
    /\ gresult = NoOutcome

\* no measure object
NoMeasure == [cls |-> "none", density |-> <<>>, mask_value |-> RatOfInt(0)]

\* what a measure operation returns: the value array and, when asked for, the
\* derivative array
Evaluated(value, dm) ==
    [kind |-> "return", value |-> value, deriv |-> dm, error |-> "none"]
MeasureRaised(err) == [kind |-> "raise", value |-> <<>>, deriv |-> <<>>, error |-> err]
NoEvaluation == [kind |-> "none", value |-> <<>>, deriv |-> <<>>, error |-> "none"]

\* no measure has been built
MeasureIdle ==
    /\ measure = NoMeasure
    /\ mpc = "new"
    /\ measureArgs = NoArgs
    /\ modelArg = NoArgs
    /\ mresult = NoEvaluation

\* no DensityModel object
NoDensityModel == [cls |-> "none", grid |-> <<>>, true_model |-> <<>>]

\* no DensityModel has been built
DensityModelIdle ==
    /\ dmodel = NoDensityModel
    /\ dpc = "new"
    /\ dmodelArgs = NoArgs
    /\ dresult = NoOutcome

\* iterative_MBIS_method has not been called
NoMbis == [old_coefficients |-> <<>>, new_coefficients |-> <<>>,
           current_error |-> <<"rat", 0, 1>>, x |-> 0]
MbisIdle ==
    /\ mbis = NoMbis
    /\ bpc = "ready"
    /\ mbisArgs = NoArgs
    /\ bresult = NoOutcome

\* GreedyLeastSquares.__init__, lines 37-43: a radial grid (one point at
\* least, strictly increasing) and a positive density on it, sampled point by
\* point or a Gaussian; line 39 builds the density model without an element,
\* so no element table is set
SeedInit ==
    /\ \E n \in 1..MaxPts :
          /\ grid \in RadialGrids(n)
          /\ density \in [1..n -> 0..MaxLogDensity] \cup GaussianTargets(grid)
    /\ element = "None"
    /\ pc = "ready"
    /\ weightArg = <<>>
    /\ costs = <<>>
    /\ outcome = NoOutcome
    /\ GreedyIdle
    /\ GridIdle
    /\ MeasureIdle
    /\ DensityModelIdle
    /\ MbisIdle

SeedNext == GetBestOneFunctionSolution \/ SolveWeight \/ GetCostFunction \/ Reset

SeedSpec == SeedInit /\ [][SeedNext]_vars

-----------------------------------------------------------------------------
(* GreedyLeastSquares: the refinement of one parameter vector *)

MaxFuncs == 2   \* the greedy run stops at MaxFuncs basis functions

\* self.factor, the default of __init__ (line 38)
Factor == 2

\* gauss_obj.create_cofactor_matrix(exps): the N x K matrix whose (i, k)
\* entry is exp(-exps[k] * r_i^2)
CreateCofactorMatrix(exps) ==
    [i \in 1..Len(grid) |->
        [k \in 1..Len(exps) |->
            IF IsRat(exps[k])
            THEN Exp(RatMul(RatNeg(exps[k]), RatOfInt(grid[i] * grid[i])))
            ELSE NaN]]

\* optimize_using_nnls(density, cofac_matrix): some vector of K non-negative
\* coefficients; which one the solver finds is not computed
NnlsResults(cofac_matrix) ==
    LET K == Len(cofac_matrix[1])
    IN  {[k \in 1..K |-> One], [k \in 1..K |-> IF k = 1 THEN One ELSE Zero]}

\* the vector p with every exponent that is not positive put at 1
InBounds(p) ==
    [j \in 1..Len(p) |->
        IF j > Len(p) \div 2 /\ ~RatLess(Zero, p[j]) THEN RatOfInt(1) ELSE p[j]]

\* optimize_using_slsqp(gauss_obj, p): a point inside the bounds
\* (coefficients >= 0, exponents > 0), either the starting point or one with
\* the exponents moved (here halved); a start holding nan has no result
SlsqpResults(p) ==
    IF \E j \in 1..Len(p) : ~IsFinite(p[j]) THEN {}
    ELSE {InBounds(p),
          [j \in 1..Len(p) |->
              IF j > Len(p) \div 2 THEN RatMul(InBounds(p)[j], Rat(1, 2))
              ELSE p[j]]}

Call(fn, args, result) == [fn |-> fn, args |-> args, result |-> result]

\* line 119 with the input params in place of the NNLS coefficients
SlsqpStart_InputParams(fr) == fr.params

\* line 119: p = np.append(coeffs, exps)
SlsqpStart(fr) == fr.coeffs \o fr.exps

\* get_optimization_routine, lines 115-116: the exponent half of params and
\* its cofactor matrix
RoutineCofactor ==
    /\ rpc = "cofactor"
    /\ LET exps == SecondHalf(frame.params)
           cofac_matrix == CreateCofactorMatrix(exps)
       IN  /\ frame' = [frame EXCEPT !.exps = exps, !.cofac_matrix = cofac_matrix]
           /\ calls' = Append(calls,
                  Call("create_cofactor_matrix", <<exps>>, cofac_matrix))
    /\ rpc' = "nnls"
    /\ UNCHANGED <<seedVars, phase, params, history, cands, bestChoice, outsideFitter>>

\* line 117: the NNLS coefficients for the density and that matrix; a solver
\* that does not converge raises, and nothing in the routine catches it
RoutineNnls ==
    /\ rpc = "nnls"
    /\ \/ \E coeffs \in NnlsResults(frame.cofac_matrix) :
             /\ frame' = [frame EXCEPT !.coeffs = coeffs]
             /\ calls' = Append(calls,
                    Call("optimize_using_nnls", <<density, frame.cofac_matrix>>, coeffs))
             /\ rpc' = "slsqp"
       \/ /\ calls' = Append(calls,
                 Call("optimize_using_nnls", <<density, frame.cofac_matrix>>, <<>>))
          /\ rpc' = "raised"
          /\ UNCHANGED frame
    /\ UNCHANGED <<seedVars, phase, params, history, cands, bestChoice, outsideFitter>>

\* line 120 written as params[:] = ...: the result is stored into the
\* caller's array
ReturnParams_InPlace(fr, result) == [fr EXCEPT !.result = result, !.params = result]

\* lines 120-121: the local name params is bound to the minimiser's result,
\* which is returned; the array the caller passed is left as it was
ReturnParams(fr, result) == [fr EXCEPT !.result = result]

\* lines 119-121: the minimiser started at the NNLS coefficients followed by
\* the exponents, and its result returned
RoutineSlsqp ==
    /\ rpc = "slsqp"
    /\ LET p == SlsqpStart(frame)
       IN  \/ \E result \in SlsqpResults(p) :
                 /\ frame' = ReturnParams(frame, result)
                 /\ calls' = Append(calls, Call("optimize_using_slsqp", <<p>>, result))
                 /\ rpc' = "returned"
           \/ /\ calls' = Append(calls, Call("optimize_using_slsqp", <<p>>, <<>>))
              /\ rpc' = "raised"
              /\ UNCHANGED frame
    /\ UNCHANGED <<seedVars, phase, params, history, cands, bestChoice, outsideFitter>>

-----------------------------------------------------------------------------
(* The greedy run: seed, grow, select *)

\* exps with entry k replaced by the two exponents exps[k] * factor and
\* exps[k] / factor
SplitAt(factor, exps, k) ==
    SubSeq(exps, 1, k - 1)
        \o <<RatMul(exps[k], RatOfInt(factor)), RatMul(exps[k], Rat(1, factor))>>
        \o SubSeq(exps, k + 1, Len(exps))

\* the splitting function get_next_choices(factor, coeffs, exps): one
\* candidate per exponent, that exponent split and its coefficient repeated
GetNextChoices(factor, coeffs, exps) ==
    [k \in 1..Len(exps) |->
        (SubSeq(coeffs, 1, k) \o SubSeq(coeffs, k, Len(coeffs)))
            \o SplitAt(factor, exps, k)]

\* get_next_iter_params(params), lines 110-112
GetNextIterParams(v) == GetNextChoices(Factor, FirstHalf(v), SecondHalf(v))

\* the cost the seed stage found for the vector it returned
SeedCost == costs[CHOOSE i \in 1..3 : Candidates[i] = outcome.value]


\* The run takes the seed stage's result as the vector of size 1; an
\* exception of the seed stage ends the run.
AcceptSeed ==
    /\ phase = "ready"
    /\ pc = "seed"
    /\ IF outcome.kind = "return"
       THEN /\ params' = outcome.value
            /\ history' = <<SeedCost>>
            /\ phase' = "grow"
            /\ outcome' = NoOutcome
       ELSE /\ phase' = "error"
            /\ UNCHANGED <<params, history, outcome>>
    /\ pc' = "run"
    /\ costs' = <<>>
    /\ UNCHANGED <<grid, density, element, weightArg, cands, bestChoice, rpc,
                   frame, calls, outsideFitter>>

\* Grow: the candidates of the next size, from get_next_iter_params
Grow ==
    /\ phase = "grow"
    /\ rpc = "idle"
    /\ Len(params) \div 2 < MaxFuncs
    /\ cands' = GetNextIterParams(params)
    /\ bestChoice' = <<>>
    /\ phase' = "select"
    /\ UNCHANGED <<seedVars, params, history, rpc, frame, calls, outsideFitter>>

\* Terminate: the basis has reached its largest size
Finish ==
    /\ phase = "grow"
    /\ rpc = "idle"
    /\ Len(params) \div 2 >= MaxFuncs
    /\ phase' = "finished"
    /\ UNCHANGED <<seedVars, params, history, cands, bestChoice, rpc, frame, calls, outsideFitter>>

\* Select: get_optimization_routine is called on the next candidate
CallRoutine ==
    /\ phase = "select"
    /\ rpc = "idle"
    /\ cands # <<>>
    /\ frame' = [NoFrame EXCEPT !.params = Head(cands)]
    /\ calls' = <<>>
    /\ rpc' = "cofactor"
    /\ UNCHANGED <<seedVars, phase, params, history, cands, bestChoice, outsideFitter>>

\* Select: the refined candidate is ranked by its cost
Evaluate ==
    /\ rpc = "returned"
    /\ \E cost \in CostFunction(frame.result) :
          bestChoice' = IF bestChoice = <<>> \/ CostLess(cost, bestChoice[1])
                        THEN <<cost, frame.result>>
                        ELSE bestChoice
    /\ cands' = Tail(cands)
    /\ rpc' = "idle"
    /\ frame' = NoFrame
    /\ calls' = <<>>
    /\ UNCHANGED <<seedVars, phase, params, history, outsideFitter>>

\* an exception of get_optimization_routine reaches the caller of the run
Propagate ==
    /\ rpc = "raised"
    /\ phase' = "error"
    /\ rpc' = "failed"
    /\ UNCHANGED <<seedVars, params, history, cands, bestChoice, frame, calls, outsideFitter>>

\* Select: the lowest-cost refined candidate becomes the accepted vector
Accept ==
    /\ phase = "select"
    /\ rpc = "idle"
    /\ cands = <<>>
    /\ params' = bestChoice[2]
    /\ history' = Append(history, bestChoice[1])
    /\ bestChoice' = <<>>
    /\ phase' = "grow"
    /\ UNCHANGED <<seedVars, cands, rpc, frame, calls, outsideFitter>>

\* get_errors_from_model(params), lines 123-128: the model of params and the
\* three error measures gauss_obj computes from it and the density; what
\* they are worth is not computed
ErrorCalls(v) ==
    <<Call("create_model", <<v>>, "model"),
      Call("integrate_model_trapz", <<"model">>, "err1"),
      Call("get_integration_error", <<density, "model">>, "err2"),
      Call("get_error_diffuse", <<density, "model">>, "err3")>>

\* the run asks for the errors of the accepted vector
GetErrorsFromModel ==
    /\ phase = "grow"
    /\ rpc = "idle"
    /\ frame' = [NoFrame EXCEPT !.params = params,
                                !.result = <<"err1", "err2", "err3">>]
    /\ calls' = ErrorCalls(params)
    /\ rpc' = "errors"
    /\ UNCHANGED <<seedVars, phase, params, history, cands, bestChoice, outsideFitter>>

\* the list of errors is handed to the run
ReturnErrors ==
    /\ rpc = "errors"
    /\ rpc' = "idle"
    /\ frame' = NoFrame
    /\ calls' = <<>>
    /\ UNCHANGED <<seedVars, phase, params, history, cands, bestChoice, outsideFitter>>

\* the targets of the greedy runs: the Gaussians, the constant densities and
\* one density rising with the radius
RunTargets(g) ==
    GaussianTargets(g)
        \cup {[i \in 1..Len(g) |-> k] : k \in 0..MaxLogDensity}
        \cup {[i \in 1..Len(g) |-> IF i - 1 < MaxLogDensity THEN i - 1 ELSE MaxLogDensity]}

GreedyInit ==
    /\ SeedInit
    /\ density \in RunTargets(grid)

GreedyNext ==
    \/ GetBestOneFunctionSolution
    \/ AcceptSeed
    \/ Grow
    \/ CallRoutine
    \/ RoutineCofactor
    \/ RoutineNnls
    \/ RoutineSlsqp
    \/ Evaluate
    \/ Propagate
    \/ Accept
    \/ GetErrorsFromModel
    \/ ReturnErrors
    \/ Finish

GreedySpec == GreedyInit /\ [][GreedyNext]_vars

-----------------------------------------------------------------------------
(* The grids of fitting/grid.py *)

MaxGridPts == 3      \* arrays and point counts go up to MaxGridPts
MaxCoord == 2        \* coordinates are the integers -1..MaxCoord
MaxValue == 1        \* integrand values are the integers 0..MaxValue
MaxAtomicNumber == 2 \* atomic numbers go up to MaxAtomicNumber
MaxShellPts == 2     \* core and diffuse point counts go up to MaxShellPts

RatSub(x, y) == RatAdd(x, RatNeg(y))
RatLeq(x, y) == ~RatLess(y, x)

RECURSIVE RatSum(_)
RatSum(s) == IF s = <<>> THEN RatOfInt(0) ELSE RatAdd(Head(s), RatSum(Tail(s)))

\* the least integer at or above the rational x
Ceil(x) == -((-x[2]) \div x[3])

\* a Python argument: its type and, for a number, its value
IsInt(a) == a.type = "int"
IsNumber(a) == a.type \in {"int", "float"}

\* BaseRadialGrid.__init__: only a 1-D ndarray is taken; np.ravel keeps its
\* values and its order, and returns a view of a contiguous array (_points
\* then shares the memory of the argument) and a copy of any other
BaseRadialGridInit(cls, points, spherical, atomic_number) ==
    IF points.type # "ndarray" \/ points.ndim # 1
    THEN [grid |-> NoGrid, result |-> Raised("TypeError")]
    ELSE [grid |-> [cls |-> cls, points |-> points.data, spherical |-> spherical,
                    step |-> RatOfInt(0), atomic_number |-> atomic_number,
                    shared |-> points.contiguous],
          result |-> Returned(<<>>)]

\* np.linspace(start, stop, num) with num >= 1 leaving out the stop value
Linspace_NoEndpoint(start, stop, num) ==
    [i \in 1..num |-> RatAdd(start, RatMul(Rat(i - 1, num), RatSub(stop, start)))]

\* np.linspace(start, stop, num) with num >= 1: num evenly spaced values, the
\* first is start and, when num > 1, the last is stop
Linspace(start, stop, num) ==
    [i \in 1..num |->
        IF num = 1 THEN start
        ELSE IF i = num THEN stop
        ELSE RatAdd(start, RatMul(Rat(i - 1, num - 1), RatSub(stop, start)))]

\* UniformRadialGrid.__init__ accepting every max_radii that is not below
\* min_radii
UniformRadialGridInit_AllowEqual(num_pts, min_radii, max_radii, spherical) ==
    IF ~IsInt(num_pts) \/ num_pts.val <= 0
    THEN [grid |-> NoGrid, result |-> Raised("TypeError")]
    ELSE IF ~IsNumber(min_radii)
    THEN [grid |-> NoGrid, result |-> Raised("TypeError")]
    ELSE IF ~IsNumber(max_radii)
    THEN [grid |-> NoGrid, result |-> Raised("TypeError")]
    ELSE IF RatLess(max_radii.val, min_radii.val)
    THEN [grid |-> NoGrid, result |-> Raised("ValueError")]
    ELSE BaseRadialGridInit("UniformRadialGrid",
             [type |-> "ndarray", ndim |-> 1, contiguous |-> TRUE,
              data |-> Linspace(min_radii.val, max_radii.val, num_pts.val)],
             spherical, 0)

\* UniformRadialGrid.__init__
UniformRadialGridInit(num_pts, min_radii, max_radii, spherical) ==
    IF ~IsInt(num_pts) \/ num_pts.val <= 0
    THEN [grid |-> NoGrid, result |-> Raised("TypeError")]
    ELSE IF ~IsNumber(min_radii)
    THEN [grid |-> NoGrid, result |-> Raised("TypeError")]
    ELSE IF ~IsNumber(max_radii)
    THEN [grid |-> NoGrid, result |-> Raised("TypeError")]
    ELSE IF RatLeq(max_radii.val, min_radii.val)
    THEN [grid |-> NoGrid, result |-> Raised("ValueError")]
    ELSE BaseRadialGridInit("UniformRadialGrid",
             [type |-> "ndarray", ndim |-> 1, contiguous |-> TRUE,
              data |-> Linspace(min_radii.val, max_radii.val, num_pts.val)],
             spherical, 0)

\* 1 - cos(pi * p / (2 * N)) for p < N <= 4, to three decimals
OneMinusCos(p, N) ==
    CASE p = 0 -> RatOfInt(0)
      [] N = 2 /\ p = 1 -> Rat(293, 1000)
      [] N = 3 /\ p = 1 -> Rat(134, 1000)
      [] N = 3 /\ p = 2 -> Rat(500, 1000)
      [] N = 4 /\ p = 1 -> Rat(76, 1000)
      [] N = 4 /\ p = 2 -> Rat(293, 1000)
      [] N = 4 /\ p = 3 -> Rat(617, 1000)

\* ClenshawRadialGrid._get_points: the mode "core" divides by 2 Z, the mode
\* "diffuse" multiplies by 25; no point at all for num_pts = 0
GetPoints(atomic_number, num_pts, mode) ==
    [i \in 1..num_pts |->
        IF mode = "core"
        THEN RatMul(OneMinusCos(i - 1, num_pts), Rat(1, 2 * atomic_number))
        ELSE RatMul(RatOfInt(25), OneMinusCos(i - 1, num_pts))]

\* s with x put before its first element above x
RECURSIVE Insert(_, _)
Insert(x, s) ==
    IF s = <<>> THEN <<x>>
    ELSE IF RatLess(x, Head(s)) THEN <<x>> \o s
    ELSE <<Head(s)>> \o Insert(x, Tail(s))

\* np.sort of a 1-D array
RECURSIVE Sort(_)
Sort(s) == IF s = <<>> THEN <<>> ELSE Insert(Head(s), Sort(Tail(s)))

\* diff_points[1:]
DropFirst(s) == IF s = <<>> THEN <<>> ELSE Tail(s)

\* ClenshawRadialGrid.__init__
ClenshawRadialGridInit(atomic_number, num_core_pts, num_diffuse_pts, extra_pts, spherical) ==
    IF ~IsInt(atomic_number) \/ atomic_number.val <= 0
    THEN [grid |-> NoGrid, result |-> Raised("TypeError")]
    ELSE IF ~IsInt(num_core_pts) \/ num_core_pts.val < 0
    THEN [grid |-> NoGrid, result |-> Raised("TypeError")]
    ELSE IF ~IsInt(num_diffuse_pts) \/ num_diffuse_pts.val < 0
    THEN [grid |-> NoGrid, result |-> Raised("TypeError")]
    ELSE LET core_points == GetPoints(atomic_number.val, num_core_pts.val, "core")
             diff_points == GetPoints(atomic_number.val, num_diffuse_pts.val, "diffuse")
             \* `if extra_pts:` is false for None and for an empty list
             truthy == extra_pts.type = "str"
                       \/ (extra_pts.type = "list" /\ extra_pts.data # <<>>)
         IN  IF truthy /\ extra_pts.type = "str"
             THEN [grid |-> NoGrid, result |-> Raised("TypeError")]
             ELSE LET points == IF truthy
                                THEN core_points \o DropFirst(diff_points) \o extra_pts.data
                                ELSE core_points \o DropFirst(diff_points)
                  IN  BaseRadialGridInit("ClenshawRadialGrid",
                          [type |-> "ndarray", ndim |-> 1, contiguous |-> TRUE,
                           data |-> Sort(points)],
                          spherical, atomic_number.val)

\* np.arange(start, stop, step) for step > 0: start + i * step below stop
Arange(start, stop, step) ==
    LET size == Ceil(RatMul(RatSub(stop, start), Rat(step[3], step[2])))
    IN  [i \in 1..(IF size > 0 THEN size ELSE 0) |->
            RatAdd(start, RatMul(RatOfInt(i - 1), step))]

\* CubicGrid.__init__: the rows of the (npoints^3, 3) array, x varying slowest
CubicGridInit(smallest_pnt, largest_pnt, step_size) ==
    IF ~IsNumber(smallest_pnt)
    THEN [grid |-> NoGrid, result |-> Raised("TypeError")]
    ELSE IF ~IsNumber(largest_pnt)
    THEN [grid |-> NoGrid, result |-> Raised("TypeError")]
    ELSE IF ~IsNumber(step_size) \/ RatLeq(step_size.val, RatOfInt(0))
    THEN [grid |-> NoGrid, result |-> Raised("TypeError")]
    ELSE IF RatLeq(largest_pnt.val, smallest_pnt.val)
    THEN [grid |-> NoGrid, result |-> Raised("ValueError")]
    ELSE LET points_1d == Arange(smallest_pnt.val,
                                 RatAdd(largest_pnt.val, step_size.val),
                                 step_size.val)
             npoints == Len(points_1d)
         IN  [grid |-> [cls |-> "CubicGrid",
                        points |-> [j \in 1..(npoints * npoints * npoints) |->
                            <<points_1d[((j - 1) \div (npoints * npoints)) + 1],
                              points_1d[(((j - 1) \div npoints) % npoints) + 1],
                              points_1d[((j - 1) % npoints) + 1]>>],
                        spherical |-> FALSE,
                        step |-> step_size.val,
                        atomic_number |-> 0,
                        shared |-> FALSE],
              result |-> Returned(<<>>)]

\* np.trapz(y, x) for 1-D arrays of one length: sum(diff(x) * (y[1:] + y[:-1]) / 2)
Trapz(y, x) ==
    LET d == [i \in 1..(Len(x) - 1) |-> RatSub(x[i + 1], x[i])]
        mid == [i \in 1..(Len(y) - 1) |-> RatMul(RatAdd(y[i + 1], y[i]), Rat(1, 2))]
    IN  RatSum([i \in 1..(Len(x) - 1) |-> RatMul(d[i], mid[i])])

\* 4 * pi * x: the multiple (n/d) * pi is the triple <<"pi", n, d>>
FourPi(x) ==
    LET m == RatMul(RatOfInt(4), x)
    IN  <<"pi", m[2], m[3]>>

\* BaseRadialGrid.integrate applying the spherical weight whatever the flag
RadialIntegrate_AlwaysSpherical(self, arr) ==
    IF Len(arr) # Len(self.points)
    THEN Raised("ValueError")
    ELSE Returned(FourPi(Trapz([i \in 1..Len(arr) |->
                      RatMul(RatMul(self.points[i], self.points[i]), arr[i])],
                  self.points)))

\* BaseRadialGrid.integrate
RadialIntegrate(self, arr) ==
    IF Len(arr) # Len(self.points)
    THEN Raised("ValueError")
    ELSE IF self.spherical
    THEN Returned(FourPi(Trapz([i \in 1..Len(arr) |->
                      RatMul(RatMul(self.points[i], self.points[i]), arr[i])],
                  self.points)))
    ELSE Returned(Trapz(arr, self.points))

\* the arguments the constructors are called with
Coords == {RatOfInt(k) : k \in (-1)..MaxCoord}
Numbers == [type : {"float"}, val : Coords] \cup {[type |-> "str", val |-> RatOfInt(0)]}
Counts(low, high) ==
    [type : {"int"}, val : low..high] \cup {[type |-> "float", val |-> high]}
Arrays(n, S) == UNION {[1..m -> S] : m \in 0..n}
Values == {RatOfInt(k) : k \in 0..MaxValue}
ExtraPts ==
    {[type |-> "None", data |-> <<>>], [type |-> "str", data |-> <<>>],
     [type |-> "list", data |-> <<>>],
     [type |-> "list", data |-> <<RatOfInt(50)>>],
     [type |-> "list", data |-> <<RatOfInt(75), RatOfInt(-1)>>]}

\* points = BaseRadialGrid(points, spherical)
NewBaseRadialGrid ==
    /\ gpc = "new"
    /\ \E points \in [type : {"ndarray"}, ndim : {1}, contiguous : BOOLEAN,
                      data : Arrays(MaxGridPts, Coords)]
                     \cup [type : {"ndarray", "list"}, ndim : {1, 2}, contiguous : {TRUE},
                           data : {<<RatOfInt(0), RatOfInt(1)>>}],
          spherical \in BOOLEAN :
          LET made == BaseRadialGridInit("BaseRadialGrid", points, spherical, 0)
          IN  /\ ctorArgs' = [cls |-> "BaseRadialGrid", points |-> points,
                              spherical |-> spherical]
              /\ gridObj' = made.grid
              /\ gresult' = made.result
    /\ gpc' = "construct"
    /\ arrArg' = <<>>
    /\ UNCHANGED outsideGrid

\* UniformRadialGrid(num_pts, min_radii, max_radii, spherical)
NewUniformRadialGrid ==
    /\ gpc = "new"
    /\ \E num_pts \in Counts(-1, MaxGridPts), min_radii \in Numbers,
          max_radii \in Numbers, spherical \in BOOLEAN :
          LET made == UniformRadialGridInit(num_pts, min_radii, max_radii, spherical)
          IN  /\ ctorArgs' = [cls |-> "UniformRadialGrid", num_pts |-> num_pts,
                              min_radii |-> min_radii, max_radii |-> max_radii,
                              spherical |-> spherical]
              /\ gridObj' = made.grid
              /\ gresult' = made.result
    /\ gpc' = "construct"
    /\ arrArg' = <<>>
    /\ UNCHANGED outsideGrid

\* ClenshawRadialGrid(atomic_number, num_core_pts, num_diffuse_pts, extra_pts,
\* spherical)
NewClenshawRadialGrid ==
    /\ gpc = "new"
    /\ \E atomic_number \in Counts(0, MaxAtomicNumber),
          num_core_pts \in Counts(-1, MaxShellPts),
          num_diffuse_pts \in Counts(-1, MaxShellPts),
          extra_pts \in ExtraPts, spherical \in BOOLEAN :
          LET made == ClenshawRadialGridInit(atomic_number, num_core_pts,
                                             num_diffuse_pts, extra_pts, spherical)
          IN  /\ ctorArgs' = [cls |-> "ClenshawRadialGrid",
                              atomic_number |-> atomic_number,
                              num_core_pts |-> num_core_pts,
                              num_diffuse_pts |-> num_diffuse_pts,
                              extra_pts |-> extra_pts, spherical |-> spherical]
              /\ gridObj' = made.grid
              /\ gresult' = made.result
    /\ gpc' = "construct"
    /\ arrArg' = <<>>
    /\ UNCHANGED outsideGrid

\* CubicGrid(smallest_pnt, largest_pnt, step_size)
NewCubicGrid ==
    /\ gpc = "new"
    /\ \E smallest_pnt \in Numbers, largest_pnt \in Numbers, step_size \in Numbers :
          LET made == CubicGridInit(smallest_pnt, largest_pnt, step_size)
          IN  /\ ctorArgs' = [cls |-> "CubicGrid", smallest_pnt |-> smallest_pnt,
                              largest_pnt |-> largest_pnt, step_size |-> step_size]
              /\ gridObj' = made.grid
              /\ gresult' = made.result
    /\ gpc' = "construct"
    /\ arrArg' = <<>>
    /\ UNCHANGED outsideGrid

\* grid.integrate(arr) on a newly built radial grid with rational points (a
\* later call reaches the same states: integrate keeps nothing): arr is a 1-D
\* array of the grid's length, or an all-zero one of another length
Integrate ==
    /\ gpc = "construct"
    /\ gridObj.cls \in {"BaseRadialGrid", "UniformRadialGrid"}
    /\ \E arr \in Arrays(MaxGridPts, Values) :
          /\ Len(arr) # Len(gridObj.points) => \A i \in 1..Len(arr) : arr[i] = RatOfInt(0)
          /\ arrArg' = arr
          /\ gresult' = RadialIntegrate(gridObj, arr)
    /\ gpc' = "integrate"
    /\ UNCHANGED <<gridObj, ctorArgs, outsideGrid>>

\* grid.points on a radial grid: the property returns self._points itself, so
\* the caller now holds the array the grid integrates over
ReadPoints ==
    /\ gpc = "construct"
    /\ gridObj.cls \in {"BaseRadialGrid", "UniformRadialGrid", "ClenshawRadialGrid"}
    /\ gpc' = "points"
    /\ gresult' = Returned(gridObj.points)
    /\ UNCHANGED <<gridObj, ctorArgs, arrArg, outsideGrid>>

\* len(grid) on a radial grid
GridLen ==
    /\ gpc = "construct"
    /\ gridObj.cls \in {"BaseRadialGrid", "UniformRadialGrid", "ClenshawRadialGrid"}
    /\ gpc' = "len"
    /\ gresult' = Returned(RatOfInt(Len(gridObj.points)))
    /\ UNCHANGED <<gridObj, ctorArgs, arrArg, outsideGrid>>

\* the caller assigns to an element of the array grid.points returned: it is
\* the grid's own array
WriteReturnedPoints ==
    /\ gpc = "points"
    /\ \E i \in 1..Len(gridObj.points), v \in Coords :
          gridObj' = [gridObj EXCEPT !.points[i] = v]
    /\ gpc' = "write"
    /\ gresult' = NoOutcome
    /\ UNCHANGED <<ctorArgs, arrArg, outsideGrid>>

\* the caller assigns to an element of the array it passed to BaseRadialGrid:
\* the grid sees the write when _points is a view of that array
WriteCallerArray ==
    /\ gpc = "construct"
    /\ gridObj.cls = "BaseRadialGrid"
    /\ \E i \in 1..Len(gridObj.points), v \in Coords :
          gridObj' = IF gridObj.shared
                     THEN [gridObj EXCEPT !.points[i] = v]
                     ELSE gridObj
    /\ gpc' = "write"
    /\ gresult' = NoOutcome
    /\ UNCHANGED <<ctorArgs, arrArg, outsideGrid>>

\* the grid is dropped and another one is built
Discard ==
    /\ gpc # "new"
    /\ gpc' = "new"
    /\ gridObj' = NoGrid
    /\ ctorArgs' = NoArgs
    /\ arrArg' = <<>>
    /\ gresult' = NoOutcome
    /\ UNCHANGED outsideGrid

\* the state before any constructor call; the fitter takes no part
GridInit ==
    /\ GridIdle
    /\ grid = <<0, 1>>
    /\ density = <<0, 0>>
    /\ element = "None"
    /\ pc = "ready"
    /\ weightArg = <<>>
    /\ costs = <<>>
    /\ outcome = NoOutcome
    /\ GreedyIdle
    /\ MeasureIdle
    /\ DensityModelIdle
    /\ MbisIdle

GridNext ==
    \/ NewBaseRadialGrid
    \/ NewUniformRadialGrid
    \/ NewClenshawRadialGrid
    \/ NewCubicGrid
    \/ Integrate
    \/ ReadPoints
    \/ GridLen
    \/ WriteReturnedPoints
    \/ WriteCallerArray
    \/ Discard

GridSpec == GridInit /\ [][GridNext]_vars

-----------------------------------------------------------------------------
(* The measures of bfit/measure.py *)

MaxMeasurePts == 2   \* density and model arrays have up to MaxMeasurePts entries
MaxHalves == 2       \* their entries are -1 and the halves 0, 1/2 .. MaxHalves/2

\* np.power(x, 2) on a rational
Square(x) == RatMul(x, x)

\* f / g on rationals as float64 divides: a zero divisor gives nan or a
\* signed infinity
Divide(f, g) ==
    IF g[2] # 0 THEN RatMul(f, Rat(g[3], g[2]))
    ELSE FloatDiv(f[2], 0)

\* np.log: 0 for 1, -inf for 0, nan below 0, else the symbolic <<"ln", n, d>>
Log(x) ==
    IF x = NaN \/ x = NegInf THEN NaN
    ELSE IF x = PosInf THEN PosInf
    ELSE IF x = RatOfInt(1) THEN RatOfInt(0)
    ELSE IF x = RatOfInt(0) THEN NegInf
    ELSE IF RatLess(x, RatOfInt(0)) THEN NaN
    ELSE <<"ln", x[2], x[3]>>

\* f * y for a rational f and a logarithm y: 0 * inf is nan; the product
\* f * ln(n/d) is the tuple <<"flog", f, n/d>> written flat
TimesLog(f, y) ==
    IF y = NaN THEN NaN
    ELSE IF IsRat(y) THEN RatMul(f, y)
    ELSE IF y \in {PosInf, NegInf}
    THEN (IF f = RatOfInt(0) THEN NaN
          ELSE IF RatLess(f, RatOfInt(0)) THEN FloatNeg(y) ELSE y)
    ELSE IF f = RatOfInt(0) THEN RatOfInt(0)
    ELSE <<"flog", f[2], f[3], y[2], y[3]>>

\* isinstance(a, np.ndarray), and a.shape == density.shape for a 1-D density
IsArray(a) == a.type = "ndarray"
SameShape(a, dens) == a.ndim = 1 /\ Len(a.data) = Len(dens)

\* SquaredDifference.__init__
SquaredDifferenceInit(dens) ==
    IF ~IsArray(dens) \/ dens.ndim # 1
    THEN [measure |-> NoMeasure, result |-> MeasureRaised("ValueError")]
    ELSE [measure |-> [cls |-> "SquaredDifference", density |-> dens.data,
                       mask_value |-> RatOfInt(0)],
          result |-> Evaluated(<<>>, <<>>)]

\* SquaredDifference.evaluate with the derivative 2 * residual
SquaredDifferenceEvaluate_PlusDeriv(self, model, deriv) ==
    IF ~IsArray(model) \/ ~SameShape(model, self.density)
    THEN MeasureRaised("ValueError")
    ELSE LET residual == [i \in 1..Len(self.density) |->
                             RatSub(self.density[i], model.data[i])]
             value == [i \in 1..Len(residual) |-> Square(residual[i])]
         IN  IF deriv
             THEN Evaluated(value, [i \in 1..Len(residual) |->
                                       RatMul(RatOfInt(2), residual[i])])
             ELSE Evaluated(value, <<>>)

\* SquaredDifference.evaluate
SquaredDifferenceEvaluate(self, model, deriv) ==
    IF ~IsArray(model) \/ ~SameShape(model, self.density)
    THEN MeasureRaised("ValueError")
    ELSE LET residual == [i \in 1..Len(self.density) |->
                             RatSub(self.density[i], model.data[i])]
             value == [i \in 1..Len(residual) |-> Square(residual[i])]
         IN  IF deriv
             THEN Evaluated(value, [i \in 1..Len(residual) |->
                                       RatMul(RatOfInt(-2), residual[i])])
             ELSE Evaluated(value, <<>>)

\* np.any(arr < 0.)
AnyNegative(arr) == \E i \in 1..Len(arr) : RatLess(arr[i], RatOfInt(0))

\* KLDivergence.__init__ without the test of the sign of the density
KLDivergenceInit_NoSignTest(dens, mask_value) ==
    IF ~IsArray(dens) \/ dens.ndim # 1
    THEN [measure |-> NoMeasure, result |-> MeasureRaised("ValueError")]
    ELSE [measure |-> [cls |-> "KLDivergence", density |-> dens.data,
                       mask_value |-> mask_value],
          result |-> Evaluated(<<>>, <<>>)]

\* KLDivergence.__init__
KLDivergenceInit(dens, mask_value) ==
    IF ~IsArray(dens) \/ dens.ndim # 1
    THEN [measure |-> NoMeasure, result |-> MeasureRaised("ValueError")]
    ELSE IF AnyNegative(dens.data)
    THEN [measure |-> NoMeasure, result |-> MeasureRaised("ValueError")]
    ELSE [measure |-> [cls |-> "KLDivergence", density |-> dens.data,
                       mask_value |-> mask_value],
          result |-> Evaluated(<<>>, <<>>)]

\* the integrand and the derivative of KLDivergence.evaluate for a ratio array
KLResult(self, ratio, deriv) ==
    LET value == [i \in 1..Len(ratio) |-> TimesLog(self.density[i], Log(ratio[i]))]
    IN  IF deriv
        THEN Evaluated(value, [i \in 1..Len(ratio) |-> FloatNeg(ratio[i])])
        ELSE Evaluated(value, <<>>)

\* KLDivergence.evaluate masking only the model values below mask_value
KLDivergenceEvaluate_MaskedLess(self, model, deriv) ==
    IF ~IsArray(model) THEN MeasureRaised("ValueError")
    ELSE IF ~SameShape(model, self.density) THEN MeasureRaised("ValueError")
    ELSE IF AnyNegative(model.data) THEN MeasureRaised("ValueError")
    ELSE KLResult(self,
             [i \in 1..Len(model.data) |->
                 IF RatLess(model.data[i], self.mask_value)
                 THEN RatOfInt(1)
                 ELSE Divide(self.density[i], model.data[i])],
             deriv)

\* KLDivergence.evaluate masking nothing
KLDivergenceEvaluate_NoMask(self, model, deriv) ==
    IF ~IsArray(model) THEN MeasureRaised("ValueError")
    ELSE IF ~SameShape(model, self.density) THEN MeasureRaised("ValueError")
    ELSE IF AnyNegative(model.data) THEN MeasureRaised("ValueError")
    ELSE KLResult(self,
             [i \in 1..Len(model.data) |-> Divide(self.density[i], model.data[i])],
             deriv)

\* KLDivergence.evaluate: the ratio density / model, and 1 where the model is
\* at or below mask_value (np.ma.masked_less_equal, then np.ma.filled)
KLDivergenceEvaluate(self, model, deriv) ==
    IF ~IsArray(model) THEN MeasureRaised("ValueError")
    ELSE IF ~SameShape(model, self.density) THEN MeasureRaised("ValueError")
    ELSE IF AnyNegative(model.data) THEN MeasureRaised("ValueError")
    ELSE KLResult(self,
             [i \in 1..Len(model.data) |->
                 IF RatLeq(model.data[i], self.mask_value)
                 THEN RatOfInt(1)
                 ELSE Divide(self.density[i], model.data[i])],
             deriv)

\* the arguments the measures are called with
MeasureValues == {RatOfInt(-1)} \cup {Rat(k, 2) : k \in 0..MaxHalves}
MeasureArrays ==
    [type : {"ndarray"}, ndim : {1}, data : Arrays(MaxMeasurePts, MeasureValues)]
    \cup [type : {"ndarray", "list"}, ndim : {1, 2}, data : {<<RatOfInt(1), RatOfInt(1)>>}]
MaskValues == {Rat(1, 4), Rat(1, 2)}

\* SquaredDifference(density)
NewSquaredDifference ==
    /\ mpc = "new"
    /\ \E dens \in MeasureArrays :
          LET made == SquaredDifferenceInit(dens)
          IN  /\ measureArgs' = [cls |-> "SquaredDifference", density |-> dens]
              /\ measure' = made.measure
              /\ mresult' = made.result
    /\ mpc' = "construct"
    /\ modelArg' = NoArgs
    /\ UNCHANGED outsideMeasure

\* KLDivergence(density, mask_value)
NewKLDivergence ==
    /\ mpc = "new"
    /\ \E dens \in MeasureArrays, mask_value \in MaskValues :
          LET made == KLDivergenceInit(dens, mask_value)
          IN  /\ measureArgs' = [cls |-> "KLDivergence", density |-> dens,
                                 mask_value |-> mask_value]
              /\ measure' = made.measure
              /\ mresult' = made.result
    /\ mpc' = "construct"
    /\ modelArg' = NoArgs
    /\ UNCHANGED outsideMeasure

\* SquaredDifference.evaluate(model, deriv) on a newly built measure (a later
\* call reaches the same states: evaluate keeps nothing)
EvaluateSquaredDifference ==
    /\ mpc = "construct"
    /\ measure.cls = "SquaredDifference"
    /\ \E model \in MeasureArrays, deriv \in BOOLEAN :
          /\ modelArg' = [cls |-> "evaluate", model |-> model, deriv |-> deriv]
          /\ mresult' = SquaredDifferenceEvaluate(measure, model, deriv)
    /\ mpc' = "evaluate"
    /\ UNCHANGED <<measure, measureArgs, outsideMeasure>>

\* KLDivergence.evaluate(model, deriv) on a newly built measure
EvaluateKLDivergence ==
    /\ mpc = "construct"
    /\ measure.cls = "KLDivergence"
    /\ \E model \in MeasureArrays, deriv \in BOOLEAN :
          /\ modelArg' = [cls |-> "evaluate", model |-> model, deriv |-> deriv]
          /\ mresult' = KLDivergenceEvaluate(measure, model, deriv)
    /\ mpc' = "evaluate"
    /\ UNCHANGED <<measure, measureArgs, outsideMeasure>>

\* the measure is dropped and another one is built
DiscardMeasure ==
    /\ mpc # "new"
    /\ mpc' = "new"
    /\ measure' = NoMeasure
    /\ measureArgs' = NoArgs
    /\ modelArg' = NoArgs
    /\ mresult' = NoEvaluation
    /\ UNCHANGED outsideMeasure

\* the state before any measure is built; the fitter and the grids take no part
MeasureInit ==
    /\ MeasureIdle
    /\ GridIdle
    /\ grid = <<0, 1>>
    /\ density = <<0, 0>>
    /\ element = "None"
    /\ pc = "ready"
    /\ weightArg = <<>>
    /\ costs = <<>>
    /\ outcome = NoOutcome
    /\ GreedyIdle
    /\ DensityModelIdle
    /\ MbisIdle

MeasureNext ==
    \/ NewSquaredDifference
    \/ NewKLDivergence
    \/ EvaluateSquaredDifference
    \/ EvaluateKLDivergence
    \/ DiscardMeasure

MeasureSpec == MeasureInit /\ [][MeasureNext]_vars

-----------------------------------------------------------------------------
(* The density model of fitting/least_squares/density_model.py *)

MaxModelPts == 2     \* the arrays of the density model have up to MaxModelPts entries
MaxModelValue == 1   \* their entries are the integers 0..MaxModelValue

\* the result of an elementwise numpy operation: the array, or the ValueError
\* of operands that cannot be broadcast together
Array(data) == [ok |-> TRUE, data |-> data]
NotBroadcast == [ok |-> FALSE, data |-> <<>>]

RatAbs(x) == IF RatLess(x, RatOfInt(0)) THEN RatNeg(x) ELSE x
AbsDiff(x, y) == RatAbs(RatSub(x, y))

\* the elementwise operations of the density model: x * y and |x - y|
Apply(op, x, y) == IF op = "multiply" THEN RatMul(x, y) ELSE AbsDiff(x, y)

\* numpy broadcasting of two 1-D arrays under the operation op: equal
\* lengths pair up, a length of 1 is stretched, any other pair is an error
Broadcast(op, a, b) ==
    IF ~a.ok \/ ~b.ok THEN NotBroadcast
    ELSE IF Len(a.data) = Len(b.data)
    THEN Array([i \in 1..Len(a.data) |-> Apply(op, a.data[i], b.data[i])])
    ELSE IF Len(a.data) = 1
    THEN Array([i \in 1..Len(b.data) |-> Apply(op, a.data[1], b.data[i])])
    ELSE IF Len(b.data) = 1
    THEN Array([i \in 1..Len(a.data) |-> Apply(op, a.data[i], b.data[1])])
    ELSE NotBroadcast

\* a[1:] and a[:-1]
AllButFirst(a) == IF a = <<>> THEN <<>> ELSE Tail(a)
AllButLast(a) == IF a = <<>> THEN <<>> ELSE SubSeq(a, 1, Len(a) - 1)

\* np.trapz(y, x) with no assumption on the shapes:
\* sum(diff(x) * (y[1:] + y[:-1]) / 2.0), each product broadcast
NumpyTrapz(y, x) ==
    IF ~y.ok THEN NotBroadcast
    ELSE LET d == Array([i \in 1..Len(AllButFirst(x)) |-> RatSub(x[i + 1], x[i])])
             mid == Array([i \in 1..Len(AllButFirst(y.data)) |->
                              RatMul(RatAdd(y.data[i + 1], y.data[i]), Rat(1, 2))])
             prod == Broadcast("multiply", d, mid)
         IN  IF prod.ok THEN Array(<<RatSum(prod.data)>>) ELSE NotBroadcast

\* what a method returns from such a result
FromArray(r) == IF r.ok THEN Returned(r.data[1]) ELSE Raised("ValueError")

\* DensityModel.__init__
DensityModelInit(grid_arg, true_model) ==
    IF grid_arg.type # "ndarray"
    THEN [model |-> NoDensityModel, result |-> Raised("TypeError")]
    ELSE IF true_model.type # "None" /\ true_model.type # "ndarray"
    THEN [model |-> NoDensityModel, result |-> Raised("TypeError")]
    ELSE IF true_model.type # "None" /\ Len(grid_arg.data) # Len(true_model.data)
    THEN [model |-> NoDensityModel, result |-> Raised("ValueError")]
    ELSE [model |-> [cls |-> "DensityModel", grid |-> grid_arg.data,
                     \* np.ravel(None) is the one-element array [None]
                     true_model |-> IF true_model.type = "None"
                                    THEN <<"None">> ELSE true_model.data],
          result |-> Returned(<<>>)]

\* DensityModel.integrate_model_trapz
IntegrateModelTrapz(self, approx_model) ==
    LET grid_squared == Array([i \in 1..Len(self.grid) |-> Square(self.grid[i])])
    IN  NumpyTrapz(Broadcast("multiply", grid_squared, Array(approx_model)), self.grid)

\* DensityModel.get_error_diffuse
GetErrorDiffuse(self, true_model, approx_model) ==
    LET abs_diff == Broadcast("absolute_difference", Array(true_model), Array(approx_model))
        grid_squared == Array([i \in 1..Len(self.grid) |-> Square(self.grid[i])])
    IN  NumpyTrapz(Broadcast("multiply", grid_squared, abs_diff), self.grid)

\* DensityModel.get_integration_error
GetIntegrationError(self, true_model, approx_model) ==
    LET integrate_true_model == IntegrateModelTrapz(self, true_model)
        integrate_approx_model == IntegrateModelTrapz(self, approx_model)
    IN  IF ~integrate_true_model.ok \/ ~integrate_approx_model.ok
        THEN NotBroadcast
        ELSE Array(<<AbsDiff(integrate_true_model.data[1],
                             integrate_approx_model.data[1])>>)

\* the arguments the density model is called with
ModelArrays == Arrays(MaxModelPts, {RatOfInt(k) : k \in 0..MaxModelValue})
Ones(n) == [i \in 1..n |-> RatOfInt(1)]
NoneArg == [type |-> "None", data |-> <<>>]

\* DensityModel(grid, true_model): true_model is None, a list, or an array of
\* ones of the grid's length or of length 1
NewDensityModel ==
    /\ dpc = "new"
    /\ \E grid_arg \in [type : {"ndarray"}, data : ModelArrays]
                       \cup {[type |-> "list", data |-> Ones(2)]} :
       \E true_model \in {NoneArg, [type |-> "list", data |-> Ones(Len(grid_arg.data))],
                          [type |-> "ndarray", data |-> Ones(Len(grid_arg.data))],
                          [type |-> "ndarray", data |-> Ones(1)]} :
          LET made == DensityModelInit(grid_arg, true_model)
          IN  /\ dmodelArgs' = [op |-> "__init__", grid |-> grid_arg,
                                true_model |-> true_model]
              /\ dmodel' = made.model
              /\ dresult' = made.result
    /\ dpc' = "construct"
    /\ UNCHANGED outsideDensityModel

\* model.integrate_model_trapz(approx_model) on a newly built model (a later
\* call reaches the same states: the method keeps nothing)
CallIntegrateModelTrapz ==
    /\ dpc = "construct"
    /\ dmodel.cls = "DensityModel"
    /\ \E approx_model \in ModelArrays :
          /\ dmodelArgs' = [op |-> "integrate_model_trapz",
                            arrays |-> <<approx_model>>]
          /\ dresult' = FromArray(IntegrateModelTrapz(dmodel, approx_model))
    /\ dpc' = "call"
    /\ UNCHANGED <<dmodel, outsideDensityModel>>

\* model.get_error_diffuse(true_model, approx_model)
CallGetErrorDiffuse ==
    /\ dpc = "construct"
    /\ dmodel.cls = "DensityModel"
    /\ \E true_model \in ModelArrays, approx_model \in ModelArrays :
          /\ dmodelArgs' = [op |-> "get_error_diffuse",
                            arrays |-> <<true_model, approx_model>>]
          /\ dresult' = FromArray(GetErrorDiffuse(dmodel, true_model, approx_model))
    /\ dpc' = "call"
    /\ UNCHANGED <<dmodel, outsideDensityModel>>

\* model.get_integration_error(true_model, approx_model)
CallGetIntegrationError ==
    /\ dpc = "construct"
    /\ dmodel.cls = "DensityModel"
    /\ \E true_model \in ModelArrays, approx_model \in ModelArrays :
          /\ dmodelArgs' = [op |-> "get_integration_error",
                            arrays |-> <<true_model, approx_model>>]
          /\ dresult' = FromArray(GetIntegrationError(dmodel, true_model, approx_model))
    /\ dpc' = "call"
    /\ UNCHANGED <<dmodel, outsideDensityModel>>

\* the model is dropped and another one is built
DiscardDensityModel ==
    /\ dpc # "new"
    /\ dpc' = "new"
    /\ dmodel' = NoDensityModel
    /\ dmodelArgs' = NoArgs
    /\ dresult' = NoOutcome
    /\ UNCHANGED outsideDensityModel

\* the state before any density model is built; nothing else takes part
DensityModelStart ==
    /\ DensityModelIdle
    /\ MbisIdle
    /\ MeasureIdle
    /\ GridIdle
    /\ grid = <<0, 1>>
    /\ density = <<0, 0>>
    /\ element = "None"
    /\ pc = "ready"
    /\ weightArg = <<>>
    /\ costs = <<>>
    /\ outcome = NoOutcome
    /\ GreedyIdle

DensityModelNext ==
    \/ NewDensityModel
    \/ CallIntegrateModelTrapz
    \/ CallGetErrorDiffuse
    \/ CallGetIntegrationError
    \/ DiscardDensityModel

DensityModelSpec == DensityModelStart /\ [][DensityModelNext]_vars

-----------------------------------------------------------------------------
(* The integration on cubic grids: CubicGrid.integrate of fitting/grid.py and
   the CubicGrid of fitting/radial_grid/cubic_grid.py that takes any number of
   arrays *)

\* x ** 3
Cube(x) == RatMul(x, RatMul(x, x))

\* np.sum(arr), the entries lo..hi added pairwise
RECURSIVE SumRange(_, _, _)
SumRange(arr, lo, hi) ==
    IF lo > hi THEN RatOfInt(0)
    ELSE IF lo = hi THEN arr[lo]
    ELSE LET mid == (lo + hi) \div 2
         IN  RatAdd(SumRange(arr, lo, mid), SumRange(arr, mid + 1, hi))
NpSum(arr) == SumRange(arr, 1, Len(arr))

\* CubicGrid.integrate(arr) of fitting/grid.py
CubicIntegrate(self, arr) ==
    IF Len(arr) # Len(self.points)
    THEN Raised("ValueError")
    ELSE Returned(RatMul(Cube(self.step), NpSum(arr)))

\* RadialGrid.__init__(grid) of fitting/radial_grid/general_grid.py: the grid
\* keeps the points it is given
RadialGridInit(grid_arg) == grid_arg

\* CubicGrid.__init__(grid, step_size) of fitting/radial_grid/cubic_grid.py
RadialCubicGridInit(grid_arg, step_size) ==
    [cls |-> "radial_grid.CubicGrid",
     points |-> RadialGridInit(grid_arg),
     spherical |-> FALSE,
     step |-> step_size,
     atomic_number |-> 0,
     shared |-> FALSE]

\* total_arr *= arr for every arr of args, in place: arr has the length of
\* total_arr or one entry, or ValueError
RECURSIVE TimesAll(_, _)
TimesAll(total_arr, args) ==
    IF args = <<>>
    THEN Array(total_arr)
    ELSE LET arr == Head(args)
         IN  IF Len(arr) = Len(total_arr)
             THEN TimesAll([i \in 1..Len(total_arr) |-> RatMul(total_arr[i], arr[i])],
                           Tail(args))
             ELSE IF Len(arr) = 1
             THEN TimesAll([i \in 1..Len(total_arr) |-> RatMul(total_arr[i], arr[1])],
                           Tail(args))
             ELSE NotBroadcast

\* CubicGrid.integrate(*args) of fitting/radial_grid/cubic_grid.py
CubicIntegrateArrays(self, args) ==
    IF args = <<>>
    THEN Raised("IndexError")
    ELSE LET total_arr == TimesAll(Ones(Len(args[1])), args)
         IN  IF total_arr.ok
             THEN Returned(RatMul(Cube(self.step), NpSum(total_arr.data)))
             ELSE Raised("ValueError")

\* the arrays a cubic grid of n points integrates: v on the first m points and
\* 0 on the others, and every short array
StepArrays(n) == {[i \in 1..n |-> IF i <= m THEN v ELSE RatOfInt(0)] : m \in 0..n, v \in Values}
CubicArrays(n) == StepArrays(n) \cup Arrays(MaxGridPts, Values)
ConstantArrays(n) == {[i \in 1..m |-> v] : m \in {1, n}, v \in Values}

\* radial_grid.CubicGrid(points, step_size) on the points and the step of a
\* cubic grid of fitting/grid.py
NewRadialCubicGrid ==
    /\ gpc = "new"
    /\ \E smallest_pnt \in Numbers, largest_pnt \in Numbers, step_size \in Numbers :
          LET made == CubicGridInit(smallest_pnt, largest_pnt, step_size)
          IN  /\ made.result.kind = "return"
              /\ ctorArgs' = [cls |-> "radial_grid.CubicGrid", grid |-> made.grid.points,
                              step_size |-> step_size]
              /\ gridObj' = RadialCubicGridInit(made.grid.points, step_size.val)
              /\ gresult' = Returned(<<>>)
    /\ gpc' = "construct"
    /\ arrArg' = <<>>
    /\ UNCHANGED outsideGrid

\* grid.integrate(arr) on a newly built cubic grid of fitting/grid.py
IntegrateCubic ==
    /\ gpc = "construct"
    /\ gridObj.cls = "CubicGrid"
    /\ \E arr \in CubicArrays(Len(gridObj.points)) :
          /\ arrArg' = arr
          /\ gresult' = CubicIntegrate(gridObj, arr)
    /\ gpc' = "integrate"
    /\ UNCHANGED <<gridObj, ctorArgs, outsideGrid>>

\* grid.integrate(), grid.integrate(a1) or grid.integrate(a1, a2) on a newly
\* built cubic grid of fitting/radial_grid/cubic_grid.py
IntegrateCubicArrays ==
    /\ gpc = "construct"
    /\ gridObj.cls = "radial_grid.CubicGrid"
    /\ \E args \in {<<>>} \cup {<<a1>> : a1 \in CubicArrays(Len(gridObj.points))}
                   \cup {<<a1, a2>> : a1 \in CubicArrays(Len(gridObj.points)),
                                      a2 \in ConstantArrays(Len(gridObj.points))} :
          /\ arrArg' = args
          /\ gresult' = CubicIntegrateArrays(gridObj, args)
    /\ gpc' = "integrate_arrays"
    /\ UNCHANGED <<gridObj, ctorArgs, outsideGrid>>

CubicNext ==
    \/ NewCubicGrid
    \/ NewRadialCubicGrid
    \/ IntegrateCubic
    \/ IntegrateCubicArrays
    \/ Discard

CubicSpec == GridInit /\ [][CubicNext]_vars

-----------------------------------------------------------------------------
(* The iteration of fitting/fit/MBIS.py: update_coefficients and
   iterative_MBIS_method.

   Units.  A coefficient is carried in units of masked_value (1e-6), an
   exponent in units of ln 2, and a density value in units of
   masked_value / (2 * sqrt(ln 2 / pi)).  With a grid of integer radii r and
   an exponent k * ln 2, exp(-exponent * r^2) is 2^(-k * r^2) exactly; with k
   a square, (exponent / pi)^(1/2) * 2 is sqrt(k) in these units.  Every
   quantity of update_coefficients is then a rational number. *)

MaxIterations == 4   \* the loop of iterative_MBIS_method runs MaxIterations times

\* masked_value in its own unit
MaskedValue == RatOfInt(1)

\* np.exp(-constant_exponent * r^2) for the exponent k * ln 2
ExpNeg(k, r) == Rat(1, Pow(2, k * r * r))

\* (constant_exponent / np.pi) ** (1 / 2) * 2. for the exponent k * ln 2
RootFactor(k) == RatOfInt(CHOOSE q \in 0..k : q * q = k)

\* np.dot(exponential, coeffs) at the radius r
GaussianDensity(coeffs, constant_exponents, r) ==
    RatSum([j \in 1..Len(coeffs) |-> RatMul(ExpNeg(constant_exponents[j], r), coeffs[j])])

\* update_coefficients(initial_coeffs, constant_exponents, electron_density,
\* grid), lines 72-106; grid_arg is the column of radii
UpdateCoefficients(initial_coeffs, constant_exponents, electron_density, grid_arg) ==
    IF \E j \in 1..Len(initial_coeffs) : ~RatLess(RatOfInt(0), initial_coeffs[j])
    THEN Raised("AssertionError")
    ELSE IF Len(initial_coeffs) # Len(constant_exponents)
    THEN Raised("AssertionError")
    ELSE IF Len(electron_density) # Len(grid_arg)
    THEN Raised("AssertionError")
    ELSE LET gaussian_density ==
                 [i \in 1..Len(grid_arg) |->
                     GaussianDensity(initial_coeffs, constant_exponents, grid_arg[i])]
             masked_gaussian_density ==
                 [i \in 1..Len(grid_arg) |->
                     IF RatLeq(gaussian_density[i], MaskedValue)
                     THEN MaskedValue
                     ELSE gaussian_density[i]]
             ratio ==
                 [i \in 1..Len(grid_arg) |->
                     RatMul(electron_density[i],
                            Rat(masked_gaussian_density[i][3], masked_gaussian_density[i][2]))]
             factor(j) == RatMul(initial_coeffs[j], RootFactor(constant_exponents[j]))
             integrand(j) ==
                 [i \in 1..Len(grid_arg) |->
                     RatMul(ratio[i], ExpNeg(constant_exponents[j], grid_arg[i]))]
             points == [i \in 1..Len(grid_arg) |-> RatOfInt(grid_arg[i])]
         IN  Returned([j \in 1..Len(initial_coeffs) |->
                         RatMul(factor(j), Trapz(integrand(j), points))])

\* np.sum(np.abs(old_coefficients - new_coefficients))
SumAbsDiff(u, v) == RatSum([j \in 1..Len(u) |-> AbsDiff(u[j], v[j])])

\* lines 120-122: temp = np.copy(new_coefficients) is taken before the
\* update, and old_coefficients = np.copy(temp) after it
NextOldCoefficients(temp, new_coefficients) == temp

\* the arguments of the runs: one Gaussian of exponent ln 2 or 4 ln 2, or
\* the two of them, on the radii 0..n; the exponent 4 ln 2 goes with the
\* radii 0 and 1 only, and two Gaussians with a density that is 0 away from
\* the origin
MbisGrids == {<<0, 1>>, <<0, 1, 2>>}
MbisExponents(g) == IF Len(g) = 2 THEN {<<1>>, <<4>>, <<1, 4>>} ELSE {<<1>>}
MbisCoeffs(n) == [1..n -> {Rat(1, 4), RatOfInt(1)}]
MbisDensities(g, n) ==
    IF n = 1 THEN [1..Len(g) -> {RatOfInt(0), RatOfInt(4)}]
    ELSE {[i \in 1..Len(g) |-> IF i = 1 THEN RatOfInt(4) ELSE RatOfInt(0)]}

\* iterative_MBIS_method(initial_coeffs, constant_exponents,
\* electron_density, grid), lines 113-115: before the loop
CallIterativeMbis ==
    /\ bpc = "ready"
    /\ \E g \in MbisGrids : \E constant_exponents \in MbisExponents(g) :
       \E initial_coeffs \in MbisCoeffs(Len(constant_exponents)),
          electron_density \in MbisDensities(g, Len(constant_exponents)) :
          /\ mbisArgs' = [initial_coeffs |-> initial_coeffs,
                          constant_exponents |-> constant_exponents,
                          electron_density |-> electron_density,
                          grid |-> g]
          /\ mbis' = [old_coefficients |-> initial_coeffs,
                      new_coefficients |-> initial_coeffs,
                      current_error |-> Huge,
                      x |-> 0]
    /\ bpc' = "loop"
    /\ bresult' = NoOutcome
    /\ UNCHANGED outsideMbis

\* one pass of the loop, lines 119-138; the model, the log ratio and
\* list_of_obj_func of lines 124-138 are printed or dropped
IterateMbis ==
    /\ bpc = "loop"
    /\ mbis.x < MaxIterations
    /\ LET temp == mbis.new_coefficients
           updated == UpdateCoefficients(mbis.old_coefficients,
                          mbisArgs.constant_exponents, mbisArgs.electron_density,
                          mbisArgs.grid)
       IN  IF updated.kind = "raise"
           THEN /\ bresult' = updated
                /\ bpc' = "raised"
                /\ UNCHANGED mbis
           ELSE LET old_coefficients == NextOldCoefficients(temp, updated.value)
                IN  /\ mbis' = [old_coefficients |-> old_coefficients,
                                new_coefficients |-> updated.value,
                                current_error |-> SumAbsDiff(old_coefficients, updated.value),
                                x |-> mbis.x + 1]
                    /\ UNCHANGED <<bpc, bresult>>
    /\ UNCHANGED <<mbisArgs, outsideMbis>>

\* line 140: return new_coefficients, current_error
ReturnMbis ==
    /\ bpc = "loop"
    /\ mbis.x = MaxIterations
    /\ bresult' = Returned(<<mbis.new_coefficients, mbis.current_error>>)
    /\ bpc' = "returned"
    /\ UNCHANGED <<mbis, mbisArgs, outsideMbis>>

\* the method is called again
DiscardMbis ==
    /\ bpc \in {"returned", "raised"}
    /\ mbis' = NoMbis
    /\ bpc' = "ready"
    /\ mbisArgs' = NoArgs
    /\ bresult' = NoOutcome
    /\ UNCHANGED outsideMbis

\* the state before any call; nothing else takes part
MbisInit ==
    /\ MbisIdle
    /\ DensityModelIdle
    /\ MeasureIdle
    /\ GridIdle
    /\ grid = <<0, 1>>
    /\ density = <<0, 0>>
    /\ element = "None"
    /\ pc = "ready"
    /\ weightArg = <<>>
    /\ costs = <<>>
    /\ outcome = NoOutcome
    /\ GreedyIdle

MbisNext ==
    \/ CallIterativeMbis
    \/ IterateMbis
    \/ ReturnMbis
    \/ DiscardMbis

MbisSpec == MbisInit /\ [][MbisNext]_vars

-----------------------------------------------------------------------------
(* Claims about the seed stage *)

\* x <= y on costs, Huge standing for one value at or above val
CostLeq(x, y) == x # NaN /\ y # NaN /\ ~CostLess(y, x)

\* C1: with no element table, get_best_one_function_solution returns a
\* 2-element vector, and it is one of the three analytic candidates whose cost
\* is less than or equal to the cost of the other two.
C1_SeedReturnsBestCandidate ==
    (pc = "seed" /\ element = "None") =>
        /\ outcome.kind = "return"
        /\ Len(outcome.value) = 2
        /\ \E i \in 1..3 :
              /\ outcome.value = Candidates[i]
              /\ \A j \in 1..3 : CostLeq(costs[i], costs[j])

\* the density is the Gaussian c * exp(-a * r^2), c = 2^kc, a = alpha * ln 2
IsGaussian(kc, alpha) ==
    density = [i \in 1..Len(grid) |-> Gaussian(kc, alpha, grid)[i][2]]
        /\ \A i \in 1..Len(grid) : Gaussian(kc, alpha, grid)[i][3] = 1

DistinctRadii == Cardinality({grid[i] : i \in 1..Len(grid)})

\* C2: for a target c * exp(-a * r^2) on a grid with two distinct radii at
\* least, _solve_one_function_weight returns exactly (c, a) for every positive
\* weight vector, and the seed stage returns (c, a) with cost 0.
C2_GaussianRecoveredExactly ==
    \A kc \in 0..MaxLogCoeff, alpha \in Alphas :
        (IsGaussian(kc, alpha) /\ DistinctRadii >= 2) =>
            /\ pc = "solve" =>
                  outcome = Returned(<<Exp(RatOfInt(kc)), alpha>>)
            /\ pc = "seed" =>
                  /\ outcome = Returned(<<Exp(RatOfInt(kc)), alpha>>)
                  /\ costs = <<RatOfInt(0), RatOfInt(0), RatOfInt(0)>>

\* C2 witness: a non-uniform weight vector on a three-point grid carrying a
\* Gaussian target
C2_Witness ==
    /\ pc = "solve"
    /\ Len(grid) = 3
    /\ \E i, j \in 1..3 : weightArg[i] # weightArg[j]
    /\ \E kc \in 0..MaxLogCoeff, alpha \in Alphas : IsGaussian(kc, alpha)
    /\ outcome.kind = "return"

\* every entry of a parameter vector is a finite number
AllFinite(v) == \A j \in 1..Len(v) : IsFinite(v[j])

\* C5: when the 2x2 system of every weighting is singular the seed stage
\* raises a fitting error, and no parameter vector holding nan or inf is
\* returned by the seed stage or by _solve_one_function_weight.
C5_SingularSystemHandled ==
    /\ (pc \in {"seed", "solve"} /\ outcome.kind = "return") =>
           AllFinite(outcome.value)
    /\ (pc = "seed" /\ element = "None" /\ Determinant(Weight1) = 0
           /\ Determinant(Weight2) = 0 /\ Determinant(Weight3) = 0) =>
           outcome = Raised("FittingError")

\* a parameter vector of even length with coefficients >= 0 and exponents > 0
ValidParams(v) ==
    /\ Len(v) % 2 = 0
    /\ \A j \in 1..(Len(v) \div 2) :
          IsExp2(v[j]) \/ (IsRat(v[j]) /\ ~RatLess(v[j], Zero))
    /\ \A j \in (Len(v) \div 2 + 1)..Len(v) : IsRat(v[j]) /\ RatLess(Zero, v[j])

\* C4: every parameter vector a greedy step produces (the seed of
\* _solve_one_function_weight and get_best_one_function_solution, the refined
\* vector of get_optimization_routine) has even length, coefficients >= 0 and
\* exponents > 0, for every positive target density and every grid.
C4_ProducedParamsValid ==
    /\ (pc \in {"seed", "solve"} /\ outcome.kind = "return") =>
           ValidParams(outcome.value)
    /\ rpc = "returned" => ValidParams(frame.result)
    /\ ValidParams(params)

-----------------------------------------------------------------------------
(* Claims about the refinement and the greedy run *)

\* the calls of the running routine to the collaborator fn
CallsTo(fn) == {i \in 1..Len(calls) : calls[i].fn = fn}

\* C3: get_optimization_routine builds the cofactor matrix from the exponent
\* half of params, then solves NNLS against the target density with it, and
\* only then calls the minimiser, exactly once, started at the NNLS
\* coefficients followed by the input exponents; no call takes the
\* coefficient half of params.
C3_RefineStagesInOrder ==
    LET exps == SecondHalf(frame.params)
        cofac_matrix == CreateCofactorMatrix(exps)
    IN  /\ rpc \in {"nnls", "slsqp", "returned", "raised"} =>
              /\ Len(calls) >= 1
              /\ calls[1] = Call("create_cofactor_matrix", <<exps>>, cofac_matrix)
        /\ rpc \in {"slsqp", "returned"} =>
              /\ Len(calls) >= 2
              /\ calls[2].fn = "optimize_using_nnls"
              /\ calls[2].args = <<density, cofac_matrix>>
              /\ CallsTo("optimize_using_slsqp") \subseteq {3}
        /\ rpc = "returned" =>
              /\ Len(calls) = 3
              /\ calls[3].fn = "optimize_using_slsqp"
              /\ calls[3].args = <<calls[2].result \o exps>>
              /\ frame.result = calls[3].result

\* C3 witness: a routine call on two basis functions has returned, and the
\* NNLS coefficients it started the minimiser at are not the input ones
C3_Witness ==
    /\ rpc = "returned"
    /\ Len(frame.params) = 4
    /\ calls[2].result # FirstHalf(frame.params)

\* C6: a convergence error of the NNLS solve or of the minimiser reaches the
\* caller only after the refine step has been run a second time, from a
\* perturbed start.
C6_FailedRefineRetriedOnce ==
    rpc \in {"raised", "failed"} =>
        Cardinality(CallsTo("optimize_using_nnls")) = 2

-----------------------------------------------------------------------------
(* Claims about the grids *)

\* the sum over consecutive points, from the i-th on, of
\* (x[i+1] - x[i]) * (y[i] + y[i+1]) / 2
RECURSIVE TrapezoidSum(_, _, _)
TrapezoidSum(x, y, i) ==
    IF i >= Len(x) THEN RatOfInt(0)
    ELSE RatAdd(RatMul(RatMul(RatSub(x[i + 1], x[i]), RatAdd(y[i], y[i + 1])), Rat(1, 2)),
                TrapezoidSum(x, y, i + 1))

IsConstant(arr, c) ==
    /\ Len(arr) = Len(gridObj.points)
    /\ \A i \in 1..Len(arr) : arr[i] = c

\* integrate has been applied to a constant array on a non-spherical uniform
\* grid of at least `least` points
UniformConstantCase(least, c) ==
    /\ gpc = "integrate"
    /\ gridObj.cls = "UniformRadialGrid"
    /\ ~gridObj.spherical
    /\ ctorArgs.num_pts.val >= least
    /\ IsConstant(arrArg, c)

\* c * (b - a) for the bounds the uniform grid was built with
ConstantIntegral(c) ==
    RatMul(c, RatSub(ctorArgs.max_radii.val, ctorArgs.min_radii.val))

NotAbove(upper, lower) ==
    IsNumber(upper) /\ IsNumber(lower) /\ RatLeq(upper.val, lower.val)

\* a constructor has been called with a point count, or a step, that is below
\* `least`, or with an upper bound not above the lower bound
RefusedArgs(least) ==
    /\ gpc = "construct"
    /\ \/ /\ ctorArgs.cls = "UniformRadialGrid"
          /\ \/ ctorArgs.num_pts.val <= 0
             \/ NotAbove(ctorArgs.max_radii, ctorArgs.min_radii)
       \/ /\ ctorArgs.cls = "ClenshawRadialGrid"
          /\ \/ ctorArgs.num_core_pts.val < least
             \/ ctorArgs.num_diffuse_pts.val < least
       \/ /\ ctorArgs.cls = "CubicGrid"
          /\ \/ IsNumber(ctorArgs.step_size) /\ RatLeq(ctorArgs.step_size.val, RatOfInt(0))
             \/ NotAbove(ctorArgs.largest_pnt, ctorArgs.smallest_pnt)

Rejected == gresult.kind = "raise" /\ gridObj = NoGrid

RadialClasses == {"BaseRadialGrid", "UniformRadialGrid", "ClenshawRadialGrid"}

\* C11: the points of every radial grid that has been built are non-negative
\* and strictly increasing, and there are two of them at least
C11_RadialPointsOrdered ==
    gridObj.cls \in RadialClasses =>
        /\ Len(gridObj.points) >= 2
        /\ \A i \in 1..Len(gridObj.points) : RatLeq(RatOfInt(0), gridObj.points[i])
        /\ \A i \in 1..(Len(gridObj.points) - 1) :
              RatLess(gridObj.points[i], gridObj.points[i + 1])

\* C12: from its construction on, the points of a radial grid never change,
\* whatever is done with the grid, with the array `points` returns or with
\* the array the constructor was given
C12_PointsNeverChange ==
    [][(gridObj.cls \in RadialClasses /\ gridObj'.cls = gridObj.cls)
          => gridObj'.points = gridObj.points]_vars

-----------------------------------------------------------------------------
(* Claims about the measures *)

\* evaluate has been called on a measure of the class cls
EvaluateCase(cls) == mpc = "evaluate" /\ measure.cls = cls

\* the model passed to evaluate is an array of the shape of the density
ModelFits ==
    /\ modelArg.model.type = "ndarray"
    /\ modelArg.model.ndim = 1
    /\ Len(modelArg.model.data) = Len(measure.density)

\* C13: SquaredDifference.evaluate returns (density - model)^2 at each point,
\* with deriv also -2 * (density - model) at each point, for every model of
\* the shape of the density, and raises ValueError for any other model
C13_SquaredDifferenceValues ==
    EvaluateCase("SquaredDifference") =>
        IF ModelFits
        THEN LET f == measure.density
                 g == modelArg.model.data
             IN  /\ mresult.kind = "return"
                 /\ Len(mresult.value) = Len(f)
                 /\ \A i \in 1..Len(f) :
                       mresult.value[i] = RatMul(RatSub(f[i], g[i]), RatSub(f[i], g[i]))
                 /\ IF modelArg.deriv
                    THEN /\ Len(mresult.deriv) = Len(f)
                         /\ \A i \in 1..Len(f) :
                               mresult.deriv[i] =
                                   RatNeg(RatMul(RatOfInt(2), RatSub(f[i], g[i])))
                    ELSE mresult.deriv = <<>>
        ELSE mresult = MeasureRaised("ValueError")

\* a derivative that is not zero at one of two points
C13_Witness ==
    /\ EvaluateCase("SquaredDifference")
    /\ ModelFits
    /\ modelArg.deriv
    /\ Len(mresult.deriv) = 2
    /\ \E i \in 1..2 : mresult.deriv[i] # RatOfInt(0)

AtFloor(i) == RatLeq(modelArg.model.data[i], measure.mask_value)

\* evaluate has returned from a model of the shape of the density
KLEvaluated ==
    /\ EvaluateCase("KLDivergence")
    /\ ModelFits
    /\ mresult.kind = "return"

C16_SelfDivergenceZero ==
    (KLEvaluated /\ modelArg.model.data = measure.density) =>
        \A i \in 1..Len(measure.density) : mresult.value[i] = RatOfInt(0)

\* a density with a zero, an element at the floor and one above it, evaluated
\* on itself
C16_Witness ==
    /\ KLEvaluated
    /\ modelArg.model.data = measure.density
    /\ Len(measure.density) = 2
    /\ \E i, j \in 1..2 :
          /\ measure.density[i] = RatOfInt(0)
          /\ RatLess(measure.mask_value, measure.density[j])
    /\ mresult.value = <<RatOfInt(0), RatOfInt(0)>>

-----------------------------------------------------------------------------
(* Claims about the density model *)

\* an array passed to the last call has not the shape of the grid
ShapeDiffers ==
    \E k \in 1..Len(dmodelArgs.arrays) : Len(dmodelArgs.arrays[k]) # Len(dmodel.grid)

\* C17: every DensityModel operation that takes an array raises a type or
\* shape error when the shape of the array is not the shape of the grid;
\* construction without a true_model is an error too
C17_ShapeMismatchRejected ==
    /\ (dpc = "call" /\ ShapeDiffers) => dresult.kind = "raise"
    /\ (dpc = "construct"
           /\ \/ dmodelArgs.true_model.type # "ndarray"
              \/ dmodelArgs.grid.type # "ndarray"
              \/ Len(dmodelArgs.true_model.data) # Len(dmodelArgs.grid.data)) =>
           (dresult.kind = "raise" /\ dmodel = NoDensityModel)

-----------------------------------------------------------------------------
(* Claims about the cubic grids *)

\* the product of the i-th entries of the arrays
RECURSIVE ProductAt(_, _)
ProductAt(arrays, i) ==
    IF arrays = <<>> THEN RatOfInt(1)
    ELSE RatMul(Head(arrays)[i], ProductAt(Tail(arrays), i))

\* step_size^3 times the sum over the grid of the product of the arrays
RiemannSum(arrays) ==
    RatMul(Cube(gridObj.step),
           NpSum([i \in 1..Len(gridObj.points) |-> ProductAt(arrays, i)]))

\* every array has one entry per grid point
AllFit(arrays) == \A k \in 1..Len(arrays) : Len(arrays[k]) = Len(gridObj.points)

\* C18: integration on a cubic grid is step_size^3 * sum(values); with several
\* arrays it is step_size^3 times the sum of their elementwise product, with
\* one array the value of the single-array integrate, and an array whose
\* length is not the number of grid points is rejected
C18_CubicRiemannSum ==
    /\ (gpc = "integrate" /\ gridObj.cls = "CubicGrid") =>
           IF AllFit(<<arrArg>>)
           THEN gresult = Returned(RiemannSum(<<arrArg>>))
           ELSE gresult.kind = "raise"
    /\ (gpc = "integrate_arrays" /\ gridObj.cls = "radial_grid.CubicGrid" /\ arrArg # <<>>) =>
           /\ IF AllFit(arrArg)
              THEN gresult = Returned(RiemannSum(arrArg))
              ELSE gresult.kind = "raise"
           /\ Len(arrArg) = 1 => gresult = CubicIntegrate(gridObj, arrArg[1])

\* the values the points of the grid take on the last axis
AxisValues == {gridObj.points[j][3] : j \in 1..Len(gridObj.points)}

\* C20: on every CubicGrid the constructor accepts, each coordinate of each
\* point lies in [smallest_pnt, largest_pnt], consecutive axis values differ
\* by step_size, and the number of points is the cube of the number of axis
\* values
C20_CubicPointsInRange ==
    gridObj.cls = "CubicGrid" =>
        /\ \A j \in 1..Len(gridObj.points) : \A c \in 1..3 :
              /\ RatLeq(ctorArgs.smallest_pnt.val, gridObj.points[j][c])
              /\ RatLeq(gridObj.points[j][c], ctorArgs.largest_pnt.val)
        /\ \A a \in AxisValues :
              \/ a = ctorArgs.smallest_pnt.val
              \/ RatSub(a, ctorArgs.step_size.val) \in AxisValues
        /\ Len(gridObj.points) =
              Cardinality(AxisValues) * Cardinality(AxisValues) * Cardinality(AxisValues)

-----------------------------------------------------------------------------
(* Claims about the steps of the greedy run *)

\* get_optimization_routine or get_errors_from_model is running
StepRunning == rpc \in {"cofactor", "nnls", "slsqp", "errors"}

-----------------------------------------------------------------------------
(* Claims about the cost function of the fitter *)

\* C21: get_cost_function(params) returns the value that
\* gauss_obj.cost_function(params) returns, for every parameter vector
C21_CostFunctionReturned ==
    pc = "cost" => outcome = Returned(costs[1])

-----------------------------------------------------------------------------
(* Claims about the finiteness of the divergence *)

\* x is nan, inf or -inf
NotANumber(x) == x[1] \in {"nan", "inf", "-inf"}

\* C22: for a non-negative density and a non-negative model of its shape,
\* every value and every derivative entry KLDivergence.evaluate returns is a
\* finite number, neither nan nor infinite
C22_DivergenceFinite ==
    KLEvaluated =>
        /\ \A i \in 1..Len(mresult.value) : ~NotANumber(mresult.value[i])
        /\ \A i \in 1..Len(mresult.deriv) : ~NotANumber(mresult.deriv[i])

-----------------------------------------------------------------------------
(* Claims about the iteration of MBIS.py *)

\* update_coefficients applied n times to initial_coeffs
RECURSIVE NFold(_)
NFold(n) ==
    IF n = 0 THEN Returned(mbisArgs.initial_coeffs)
    ELSE LET previous == NFold(n - 1)
         IN  IF previous.kind = "raise" THEN previous
             ELSE UpdateCoefficients(previous.value, mbisArgs.constant_exponents,
                                     mbisArgs.electron_density, mbisArgs.grid)

\* the update leaves the coefficients c as they are
FixedPoint(c) ==
    UpdateCoefficients(c, mbisArgs.constant_exponents, mbisArgs.electron_density,
                       mbisArgs.grid) = Returned(c)

\* C23: at the start of every loop iteration old_coefficients is the latest
\* new_coefficients, so the coefficients returned after n iterations are the
\* n-fold update of initial_coeffs, and the current_error returned is the
\* change made by the last update: it is 0 at a fixed point only
C23_EveryIterationUpdatesLatest ==
    /\ (bpc = "loop" /\ mbis.x < MaxIterations) =>
           mbis.old_coefficients = mbis.new_coefficients
    /\ bpc = "returned" =>
           /\ Returned(bresult.value[1]) = NFold(MaxIterations)
           /\ bresult.value[2] =
                  SumAbsDiff(NFold(MaxIterations - 1).value, bresult.value[1])
           /\ bresult.value[2] = RatOfInt(0) => FixedPoint(bresult.value[1])

=============================================================================
